---- MODULE Spec2Model ----
(***************************************************************************)
(* Model of the NeurIPS paper harvester (scrapper.py) and of the annotator *)
(* (annotator.py).  Strings are sequences of tokens, so concatenation,     *)
(* suffix tests, split("/") and strip() are computed, not assumed.         *)
(***************************************************************************)
EXTENDS Integers, Sequences, FiniteSets, TLC

VARIABLES
    root,       \* the remote site: the hrefs of the anchors of the root page
    catalog,    \* the remote site: item page url -> page markup (never changes)
    file,       \* NeurIPS_Papers/metadata.json
    disk,       \* downloaded artifacts: file path -> content
    width,      \* max_workers of both executors
    run,        \* number of crawls (main) started
    mainPc,     \* position of main
    latest_year_urls, \* main's list of the index pages it submitted
    yearPc,     \* position of each process_year task
    pc,         \* position of each process_paper task
    loc,        \* local variables of each process_paper task
    outcome,    \* how each process_paper task ended
    before,     \* contents of the store when the current crawl started
    saved,      \* metadata of every save_metadata call of the crawl that returned
    fetched,    \* <<run, pdf_url>> of every download_pdf call
    faults,     \* number of failed network requests so far
    passes,     \* number of annotate_papers passes started
    apc,        \* position of annotate_papers
    metadata,   \* annotate_papers' list of entries
    todo,       \* indices of metadata still to visit (the rest of unannotated)
    cl,         \* call_gemini_with_retry: entry, attempt, sleeps, return value
    passStart,  \* contents of the store when the current pass loaded it
    replies     \* entry index -> what generate_content did, call by call, this pass

crawlVars == <<root, catalog, file, disk, width, run, mainPc, latest_year_urls, yearPc, pc, loc, outcome,
               before, saved, fetched, faults>>

enrichVars == <<passes, apc, metadata, todo, cl, passStart, replies>>

vars == <<crawlVars, enrichVars>>

----------------------------------------------------------------------------
(* Bounds *)

MaxRuns == 2
MaxFaults == 1
MaxPoolRuns == 1
MaxPasses == 2
MaxItems == 2

----------------------------------------------------------------------------
(* Strings as token sequences *)

WS == {" ", "\n"}

RECURSIVE lstrip(_)
lstrip(s) == IF s # <<>> /\ Head(s) \in WS THEN lstrip(Tail(s)) ELSE s

RECURSIVE rstrip(_)
rstrip(s) == IF s # <<>> /\ s[Len(s)] \in WS THEN rstrip(SubSeq(s, 1, Len(s) - 1)) ELSE s

strip(s) == rstrip(lstrip(s))

endswith(s, suf) ==
    /\ Len(s) >= Len(suf)
    /\ SubSeq(s, Len(s) - Len(suf) + 1, Len(s)) = suf

Max(S) == CHOOSE m \in S : \A n \in S : n <= m
Min(S) == CHOOSE m \in S : \A n \in S : m <= n

\* s.split("/")[-1]
LastSegment(s) ==
    LET slashes == {i \in 1..Len(s) : s[i] = "/"}
    IN  IF slashes = {} THEN s ELSE SubSeq(s, Max(slashes) + 1, Len(s))

\* int() and str() on the year tokens the catalog uses
YearTokens == {"2019", "2020", "2021", "2022", "2023", "2024"}
int(tok) == CASE tok = "2019" -> 2019 [] tok = "2020" -> 2020 [] tok = "2021" -> 2021
              [] tok = "2022" -> 2022 [] tok = "2023" -> 2023 [] tok = "2024" -> 2024
str(n) == CASE n = 2019 -> "2019" [] n = 2020 -> "2020" [] n = 2021 -> "2021"
            [] n = 2022 -> "2022" [] n = 2023 -> "2023" [] n = 2024 -> "2024" [] n = 0 -> "0"

Range(s) == {s[i] : i \in 1..Len(s)}

----------------------------------------------------------------------------
(* Configuration of scrapper.py *)

BASE_URL == <<"https:", "/", "/", "papers.nips.cc">>
THREAD_POOL_SIZE == 10
DOWNLOAD_DIR == <<"NeurIPS_Papers">>

\* os.path.join
join(a, b) == a \o <<"/">> \o b

----------------------------------------------------------------------------
(* The remote catalog *)

Index2024 == <<"/", "paper_files", "/", "paper", "/", "2024">>
Index2023 == <<"/", "paper_files", "/", "paper", "/", "2023">>

RootLinks == <<Index2024, Index2023>>

Item1 == <<"/", "paper_files", "/", "paper", "/", "2024", "/", "hash", "/", "p1", "-Abstract", ".html">>
Item2 == <<"/", "paper_files", "/", "paper", "/", "2024", "/", "hash", "/", "p2", "-Abstract", ".html">>
Item3 == <<"/", "paper_files", "/", "paper", "/", "2023", "/", "hash", "/", "p3", "-Abstract", ".html">>

\* the anchors of each index page, in document order
IndexLinks(y) ==
    CASE y = BASE_URL \o Index2024 -> <<Item1, Item2, <<"/", "static", "/", "site", ".css">> >>
      [] y = BASE_URL \o Index2023 -> <<Item3>>

PdfA == <<"/", "paper_files", "/", "paper", "/", "2024", "/", "file", "/", "aaa", "-Paper-Conference.pdf">>
PdfB == <<"/", "paper_files", "/", "paper", "/", "2024", "/", "file", "/", "bbb", "-Paper.pdf">>
Bibtex == <<"/", "paper_files", "/", "paper", "/", "2024", "/", "file", "/", "aaa", "-Bibtex.bib">>

\* the markup of an item page: its h4 headings in document order, what follows
\* the "Authors" heading ("none", a <p> without <i> = "p", a <p><i> = "pi"),
\* the text of that <i>, and the hrefs of its anchors in document order
Page(h4, authorP, authors, links) ==
    [h4 |-> h4, authorP |-> authorP, authors |-> authors, links |-> links]

TitleText == <<"\n", "Example", " ", "Paper", " ">>
AuthorsText == <<" ", "A.", " ", "Author", "\n">>

NormalA == Page(<<TitleText, <<"Authors">> >>, "pi", AuthorsText, <<Bibtex, PdfA>>)
NormalB == Page(<<TitleText, <<"Authors">> >>, "pi", AuthorsText, <<PdfB>>)
NoAuthors == Page(<<TitleText>>, "none", <<>>, <<PdfA>>)
NoItalic == Page(<<TitleText, <<"Authors">> >>, "p", <<>>, <<PdfB>>)
NoPdf == Page(<<TitleText, <<"Authors">> >>, "pi", AuthorsText, <<Bibtex>>)
Bare == Page(<<>>, "none", <<>>, <<PdfA>>)

PageKinds == {NormalA, NormalB, NoAuthors, NoItalic, NoPdf, Bare}

ItemUrls == {BASE_URL \o Item1, BASE_URL \o Item2, BASE_URL \o Item3}
YearUrls == {BASE_URL \o Index2024, BASE_URL \o Index2023}

\* the catalogs explored: the first item page has any markup, the other two are
\* complete pages; two pages may link the same artifact
Catalogs ==
    {c \in [ItemUrls -> PageKinds] :
        /\ c[BASE_URL \o Item2] \in {NormalA, NormalB}
        /\ c[BASE_URL \o Item3] = NormalB}

----------------------------------------------------------------------------
(* metadata.json as bytes on disk.  st = "missing": no file; "json": the    *)
(* bytes are the serialisation of data; "torn": the bytes are not a JSON    *)
(* document (an empty file, or a document followed by the rest of a longer  *)
(* one); data then keeps the records whose bytes are still in the file.     *)

NoFile == [st |-> "missing", data |-> <<>>]

\* open(metadata_path, "w")
Truncate(f) == [st |-> "torn", data |-> <<>>]

\* json.dump(d, f) through a handle positioned at offset 0, then close
Write(f, d) ==
    IF Len(f.data) > Len(d)
    THEN [st |-> "torn", data |-> f.data]
    ELSE [st |-> "json", data |-> d]

\* json.load raises on a file that is not a JSON document
LoadRaises(f) == f.st = "torn"

load_existing_metadata(f) == IF f.st = "json" THEN f.data ELSE <<>>

is_already_downloaded(pdf_url, f) ==
    LET existing_metadata == load_existing_metadata(f)
    IN  \E i \in 1..Len(existing_metadata) :
            /\ existing_metadata[i].file_path # <<>>
            /\ existing_metadata[i].url = pdf_url

----------------------------------------------------------------------------
(* process_paper: parsing *)

Title(page) == IF page.h4 # <<>> THEN strip(page.h4[1]) ELSE <<"Unknown Title">>

\* soup.find("h4", text="Authors") is not None
HasAuthorSection(page) == \E i \in 1..Len(page.h4) : page.h4[i] = <<"Authors">>

\* author_tag and author_tag.find("i")
AuthorsBound(page) == page.authorP = "pi"

\* re.search(r'/paper_files/paper/(\d{4})/', paper_page_url)
YearMatches(url) ==
    {i \in 1..(Len(url) - 6) :
        /\ SubSeq(url, i, i + 4) = <<"/", "paper_files", "/", "paper", "/">>
        /\ url[i + 5] \in YearTokens
        /\ url[i + 6] = "/"}

Year(url) == IF YearMatches(url) = {} THEN 0 ELSE int(url[Min(YearMatches(url)) + 5])

IsPdfHref(h) == endswith(h, <<"-Paper-Conference.pdf">>) \/ endswith(h, <<"-Paper.pdf">>)

NoLink == <<>>

\* the selector without its suffix tests: the first anchor of the page
PdfLink_AnyAnchor(page) == IF page.links = <<>> THEN <<>> ELSE page.links[1]

\* soup.select_one("a[href$='-Paper-Conference.pdf'], a[href$='-Paper.pdf']")
PdfLink(page) ==
    LET hits == {i \in 1..Len(page.links) : IsPdfHref(page.links[i])}
    IN  IF hits = {} THEN NoLink ELSE page.links[Min(hits)]

FilePath(url, pdf_url) == join(join(DOWNLOAD_DIR, <<str(Year(url))>>), LastSegment(pdf_url))

Metadata(t, l, now) ==
    [title |-> l.title, url |-> t, authors |-> l.authors, year |-> l.year,
     file_path |-> l.file_path, scraped_at |-> now]

\* dl: what download_pdf did ("none": not called, "saved": the body was written,
\* "failed": a non-200 status or an exception)
NoLocals == [title |-> <<>>, authors |-> <<>>, bound |-> FALSE, year |-> 0,
             pdf_url |-> <<>>, file_path |-> <<>>, dl |-> "none", data |-> <<>>]

----------------------------------------------------------------------------
(* process_year, main: discovery *)

\* select("a[href$='.html']")
IsHtml(h) == endswith(h, <<".html">>)

PaperLinks(y) == [i \in 1..Len(SelectSeq(IndexLinks(y), IsHtml)) |->
                    BASE_URL \o SelectSeq(IndexLinks(y), IsHtml)[i]]

TasksOf(y) == Range(PaperLinks(y))

\* the place of x in the list s
IndexOf(s, x) == Min({i \in 1..Len(s) : s[i] = x})

YearOfTask(t) == CHOOSE y \in YearUrls : t \in TasksOf(y)

\* the digits of a token, most significant first
DigitsOf(tok) ==
    CASE tok = "2024" -> <<2, 0, 2, 4>>
      [] tok = "2023" -> <<2, 0, 2, 3>>
      [] tok = "2022" -> <<2, 0, 2, 2>>
      [] tok = "2021" -> <<2, 0, 2, 1>>
      [] tok = "2020" -> <<2, 0, 2, 0>>
      [] tok = "2019" -> <<2, 0, 1, 9>>
      [] tok = "2" -> <<2>>
      [] OTHER -> <<>>

RECURSIVE AllDigits(_)
AllDigits(url) == IF url = <<>> THEN <<>> ELSE DigitsOf(Head(url)) \o AllDigits(Tail(url))

RECURSIVE IntOfDigits(_)
IntOfDigits(ds) ==
    IF ds = <<>> THEN 0 ELSE 10 * IntOfDigits(SubSeq(ds, 1, Len(ds) - 1)) + ds[Len(ds)]

\* int(''.join(filter(str.isdigit, url))), 0 on ValueError (no digit at all)
extract_year_from_url(url) == IntOfDigits(AllDigits(url))

\* select("a[href^='/paper']")
StartsWithPaper(h) == Len(h) >= 2 /\ h[1] = "/" /\ h[2] \in {"paper", "paper_files"}

DiscoveredYearUrls == {BASE_URL \o h : h \in {g \in root : StartsWithPaper(g)}}

\* sorted(set(...), key=extract_year_from_url, reverse=True): any order of the
\* set with non-increasing keys (ties keep the set's arbitrary iteration order)
RECURSIVE SortedYearUrls(_)
SortedYearUrls(S) ==
    IF S = {} THEN {<<>>}
    ELSE LET first == {x \in S : \A y \in S :
                          extract_year_from_url(x) >= extract_year_from_url(y)}
         IN  UNION {{<<x>> \o s : s \in SortedYearUrls(S \ {x})} : x \in first}

\* year_urls[:5]
LatestYearUrls(s) == SubSeq(s, 1, IF Len(s) < 5 THEN Len(s) ELSE 5)

----------------------------------------------------------------------------
(* The crawl *)

InitCrawl ==
    /\ root = Range(RootLinks)
    /\ catalog \in Catalogs
    /\ file = NoFile
    /\ disk = <<>>
    /\ run = 0
    /\ mainPc = "idle"
    /\ latest_year_urls = <<>>
    /\ yearPc = [y \in YearUrls |-> "idle"]
    /\ pc = [t \in ItemUrls |-> "idle"]
    /\ loc = [t \in ItemUrls |-> NoLocals]
    /\ outcome = [t \in ItemUrls |-> "none"]
    /\ before = <<>>
    /\ saved = {}
    /\ fetched = {}
    /\ faults = 0

\* the executor of t's index page hands its tasks to its worker threads in the
\* order of submission: t runs once a thread is left for it after the running
\* tasks and the tasks queued before it
ItemWorkerFree(t) ==
    LET links == PaperLinks(YearOfTask(t))
        running == {u \in Range(links) : pc[u] \notin {"idle", "queued", "done"}}
        ahead == {u \in Range(links) :
                     pc[u] = "queued" /\ IndexOf(links, u) < IndexOf(links, t)}
    IN  Cardinality(running) + Cardinality(ahead) < width

\* the same for main's executor and the index page y
YearWorkerFree(y) ==
    LET running == {z \in YearUrls : yearPc[z] = "waiting"}
        ahead == {z \in Range(latest_year_urls) :
                     /\ yearPc[z] = "queued"
                     /\ IndexOf(latest_year_urls, z) < IndexOf(latest_year_urls, y)}
    IN  Cardinality(running) + Cardinality(ahead) < width

\* the task returns (normally, or from its except clause)
Finish(t, how) ==
    /\ pc' = [pc EXCEPT ![t] = "done"]
    /\ outcome' = [outcome EXCEPT ![t] = how]
    /\ loc' = [loc EXCEPT ![t] = NoLocals]

\* what a network request may give: its answer, or a failure while the run
\* has failures left
Responses(good, bad) == good \cup (IF faults < MaxFaults THEN bad ELSE {})

Failed(resp, bad) == faults' = IF resp \in bad THEN faults + 1 ELSE faults

\* crawls explored: one with the executors' ten threads, more in sequence
RunLimit == IF width = 1 THEN MaxRuns ELSE MaxPoolRuns

\* main up to the submission of the index tasks (lines 108-119)
MainStart ==
    /\ mainPc \in {"idle", "done"}
    /\ run < RunLimit
    /\ run' = run + 1
    /\ before' = file.data
    /\ saved' = {}
    /\ pc' = [t \in ItemUrls |-> "idle"]
    /\ loc' = [t \in ItemUrls |-> NoLocals]
    /\ outcome' = [t \in ItemUrls |-> "none"]
    /\ \E resp \in Responses({"ok"}, {"error"}) :
          /\ Failed(resp, {"error"})
          /\ IF resp = "error"
             THEN /\ mainPc' = "done"
                  /\ latest_year_urls' = <<>>
                  /\ yearPc' = [y \in YearUrls |-> "idle"]
             ELSE \E year_urls \in SortedYearUrls(DiscoveredYearUrls) :
                     /\ mainPc' = "running"
                     /\ latest_year_urls' = LatestYearUrls(year_urls)
                     /\ yearPc' = [y \in YearUrls |->
                                     IF y \in Range(LatestYearUrls(year_urls))
                                     THEN "queued" ELSE "idle"]
    /\ UNCHANGED enrichVars
    /\ UNCHANGED <<root, catalog, file, disk, width, fetched>>

\* main's as_completed loop and the executor's shutdown (lines 120-121)
MainJoin ==
    /\ mainPc = "running"
    /\ \A y \in YearUrls : yearPc[y] \in {"idle", "done"}
    /\ mainPc' = "done"
    /\ UNCHANGED enrichVars
    /\ UNCHANGED <<root, catalog, file, disk, width, run, latest_year_urls, yearPc, pc, loc, outcome,
                   before, saved, fetched, faults>>

\* process_year up to the submission of the item tasks (lines 92-96)
ProcessYearFetch(y) ==
    /\ yearPc[y] = "queued"
    /\ YearWorkerFree(y)
    /\ \E resp \in Responses({"ok"}, {"error"}) :
          /\ Failed(resp, {"error"})
          /\ IF resp = "error"
             THEN /\ yearPc' = [yearPc EXCEPT ![y] = "done"]
                  /\ pc' = pc
             ELSE /\ yearPc' = [yearPc EXCEPT ![y] = "waiting"]
                  /\ pc' = [t \in ItemUrls |-> IF t \in TasksOf(y) THEN "queued" ELSE pc[t]]
    /\ UNCHANGED enrichVars
    /\ UNCHANGED <<root, catalog, file, disk, width, run, mainPc, latest_year_urls, loc, outcome,
                   before, saved, fetched>>

\* process_year returning without waiting for the tasks it submitted
ProcessYearJoin_NoWait(y) ==
    /\ yearPc[y] = "waiting"
    /\ yearPc' = [yearPc EXCEPT ![y] = "done"]
    /\ UNCHANGED enrichVars
    /\ UNCHANGED <<root, catalog, file, disk, width, run, mainPc, latest_year_urls, pc, loc, outcome,
                   before, saved, fetched, faults>>

\* process_year's as_completed loop and the executor's shutdown (lines 97-98)
ProcessYearJoin(y) ==
    /\ yearPc[y] = "waiting"
    /\ \A t \in TasksOf(y) : pc[t] = "done"
    /\ yearPc' = [yearPc EXCEPT ![y] = "done"]
    /\ UNCHANGED enrichVars
    /\ UNCHANGED <<root, catalog, file, disk, width, run, mainPc, latest_year_urls, pc, loc, outcome,
                   before, saved, fetched, faults>>

\* process_paper from the page fetch to the dedup check (lines 53-74)
ProcessPaperParse(t) ==
    /\ pc[t] = "queued"
    /\ ItemWorkerFree(t)
    /\ \E resp \in Responses({"ok"}, {"error"}) :
          LET page == catalog[t]
              pdf_link == PdfLink(page)
              pdf_url == BASE_URL \o pdf_link
          IN  /\ Failed(resp, {"error"})
              /\ IF resp = "error" \/ ~HasAuthorSection(page)
                 THEN Finish(t, "error")
                 ELSE IF pdf_link = NoLink
                 THEN Finish(t, "nolink")
                 ELSE IF LoadRaises(file)
                 THEN Finish(t, "error")
                 ELSE IF is_already_downloaded(pdf_url, file)
                 THEN Finish(t, "skipped")
                 ELSE /\ pc' = [pc EXCEPT ![t] = "download"]
                      /\ outcome' = outcome
                      /\ loc' = [loc EXCEPT ![t] =
                                   [title |-> Title(page),
                                    authors |-> IF AuthorsBound(page)
                                                THEN strip(page.authors) ELSE <<>>,
                                    bound |-> AuthorsBound(page),
                                    year |-> Year(t),
                                    pdf_url |-> pdf_url,
                                    file_path |-> FilePath(t, pdf_url),
                                    dl |-> "none",
                                    data |-> <<>>]]
    /\ UNCHANGED enrichVars
    /\ UNCHANGED <<root, catalog, file, disk, width, run, mainPc, latest_year_urls, yearPc, before, saved, fetched>>

\* the file at path p of the artifact directory now holds c
Put(d, p, c) == [q \in DOMAIN d \cup {p} |-> IF q = p THEN c ELSE d[q]]

\* download_pdf up to open(file_path, "wb") (lines 37-41, 44-47)
DownloadBegin(t) ==
    /\ pc[t] = "download"
    /\ fetched' = fetched \cup {<<run, loc[t].pdf_url>>}
    /\ \E status \in Responses({"200"}, {"500", "exception"}) :
          /\ Failed(status, {"500", "exception"})
          /\ IF status = "200"
             THEN /\ disk' = Put(disk, loc[t].file_path, "empty")
                  /\ pc' = [pc EXCEPT ![t] = "writing"]
                  /\ loc' = loc
             ELSE /\ disk' = disk
                  /\ pc' = [pc EXCEPT ![t] = "meta"]
                  /\ loc' = [loc EXCEPT ![t].dl = "failed"]
    /\ UNCHANGED enrichVars
    /\ UNCHANGED <<root, catalog, file, width, run, mainPc, latest_year_urls, yearPc, outcome, before, saved>>

\* download_pdf: f.write(response.content), or the body's transfer fails (lines 41-47)
DownloadEnd(t) ==
    /\ pc[t] = "writing"
    /\ \E body \in Responses({"pdf"}, {"exception"}) :
          /\ Failed(body, {"exception"})
          /\ disk' = IF body = "pdf" THEN Put(disk, loc[t].file_path, "pdf") ELSE disk
          /\ loc' = [loc EXCEPT ![t].dl = IF body = "pdf" THEN "saved" ELSE "failed"]
    /\ pc' = [pc EXCEPT ![t] = "meta"]
    /\ UNCHANGED enrichVars
    /\ UNCHANGED <<root, catalog, file, width, run, mainPc, latest_year_urls, yearPc, outcome,
                   before, saved, fetched>>

\* the metadata dict and save_metadata's read and append (lines 78-86, 24-26)
SaveLoad(t) ==
    /\ pc[t] = "meta"
    /\ IF ~loc[t].bound \/ LoadRaises(file)
       THEN Finish(t, "error")
       ELSE /\ loc' = [loc EXCEPT ![t].data =
                         Append(load_existing_metadata(file), Metadata(t, loc[t], run))]
            /\ pc' = [pc EXCEPT ![t] = "open"]
            /\ outcome' = outcome
    /\ UNCHANGED enrichVars
    /\ UNCHANGED <<root, catalog, file, disk, width, run, mainPc, latest_year_urls, yearPc, before, saved,
                   fetched, faults>>

\* save_metadata: open(metadata_path, "w") (line 27)
SaveOpen(t) ==
    /\ pc[t] = "open"
    /\ file' = Truncate(file)
    /\ pc' = [pc EXCEPT ![t] = "dump"]
    /\ UNCHANGED enrichVars
    /\ UNCHANGED <<root, catalog, disk, width, run, mainPc, latest_year_urls, yearPc, loc, outcome,
                   before, saved, fetched, faults>>

\* save_metadata: json.dump and close (line 28); process_paper returns
SaveDump(t) ==
    /\ pc[t] = "dump"
    /\ file' = Write(file, loc[t].data)
    /\ saved' = saved \cup {loc[t].data[Len(loc[t].data)]}
    /\ Finish(t, "saved")
    /\ UNCHANGED enrichVars
    /\ UNCHANGED <<root, catalog, disk, width, run, mainPc, latest_year_urls, yearPc, before, fetched, faults>>

NextCrawl ==
    \/ MainStart
    \/ MainJoin
    \/ \E y \in YearUrls : ProcessYearFetch(y) \/ ProcessYearJoin(y)
    \/ \E t \in ItemUrls :
          \/ ProcessPaperParse(t)
          \/ DownloadBegin(t)
          \/ DownloadEnd(t)
          \/ SaveLoad(t)
          \/ SaveOpen(t)
          \/ SaveDump(t)

----------------------------------------------------------------------------
(* Configuration of annotator.py *)

LABELS == {<<"Reinforcement Learning">>, <<"Computer Vision">>,
           <<"Natural Language Processing">>, <<"Optimization">>, <<"Theoretical ML">>}
API_RETRY_LIMIT == 5
API_RETRY_DELAY == 2

Unknown == <<"Unknown">>

RECURSIVE Pow2(_)
Pow2(n) == IF n = 0 THEN 1 ELSE 2 * Pow2(n - 1)

load_metadata(f) == IF f.st = "json" THEN f.data ELSE <<>>

is_valid_pdf(file_path, d) == file_path \in DOMAIN d /\ d[file_path] = "pdf"

\* what fitz reads from the first pages: text, nothing, or it raises
Extractions == {<<"\n", "Deep", " ", "nets", "\n">>, <<"\n">>, <<"<raises>">>}

extract_text_from_pdf(pdf_path, d, pages) ==
    IF ~is_valid_pdf(pdf_path, d) THEN <<>>
    ELSE IF pages = <<"<raises>">> THEN <<>>
    ELSE IF strip(pages) # <<>> THEN strip(pages) ELSE <<"No text found">>

\* the assignment leaving the entry without annotation when the label is "Unknown"
SetAnnotation_SkipUnknown(e, a) == IF a = <<"Unknown">> THEN e ELSE [annotation |-> a] @@ e

\* entry["annotation"] = a
SetAnnotation(e, a) == [annotation |-> a] @@ e

\* the list without its filter: every entry
Unannotated_Unfiltered(m) == [i \in 1..Len(m) |-> i]

\* [entry for entry in metadata if "annotation" not in entry], as indices
Unannotated(m) ==
    LET RECURSIVE from(_)
        from(i) == IF i > Len(m) THEN <<>>
                   ELSE IF "annotation" \in DOMAIN m[i] THEN from(i + 1)
                   ELSE <<i>> \o from(i + 1)
    IN  from(1)

\* what model.generate_content may do: answer with a text, answer with nothing,
\* raise an error that mentions 429, raise another error
Answers == {<<" ", "Optimization", "\n">>, <<"Robotics">>, <<" ">>}
Replies == [kind : {"text"}, text : Answers] \cup
           [kind : {"none", "429", "error"}, text : {<<>>}]

\* pages: what the text extraction read from the document of the call's entry
NoCall == [st |-> "idle", idx |-> 0, attempt |-> 0, delays |-> <<>>, result |-> <<>>,
           pages |-> <<>>]

\* the loop with a delay that grows by API_RETRY_DELAY instead of doubling
call_gemini_with_retry_Linear(c, r, max_retries) ==
    CASE r.kind = "text" -> [c EXCEPT !.st = "returned", !.result = strip(r.text)]
      [] r.kind = "none" -> [c EXCEPT !.st = "returned", !.result = Unknown]
      [] r.kind = "error" -> [c EXCEPT !.st = "returned", !.result = Unknown]
      [] r.kind = "429" ->
            LET slept == [c EXCEPT
                            !.delays = Append(c.delays, API_RETRY_DELAY * (c.attempt + 1)),
                            !.attempt = c.attempt + 1]
            IN  IF c.attempt + 1 < max_retries THEN slept
                ELSE [slept EXCEPT !.st = "returned", !.result = Unknown]

\* the loop retrying after every error, not only after a 429
call_gemini_with_retry_AnyError(c, r, max_retries) ==
    CASE r.kind = "text" -> [c EXCEPT !.st = "returned", !.result = strip(r.text)]
      [] r.kind = "none" -> [c EXCEPT !.st = "returned", !.result = Unknown]
      [] r.kind \in {"429", "error"} ->
            LET slept == [c EXCEPT
                            !.delays = Append(c.delays, API_RETRY_DELAY * Pow2(c.attempt)),
                            !.attempt = c.attempt + 1]
            IN  IF c.attempt + 1 < max_retries THEN slept
                ELSE [slept EXCEPT !.st = "returned", !.result = Unknown]

\* the loop returning response.text without strip()
call_gemini_with_retry_NoStrip(c, r, max_retries) ==
    CASE r.kind = "text" -> [c EXCEPT !.st = "returned", !.result = r.text]
      [] r.kind = "none" -> [c EXCEPT !.st = "returned", !.result = Unknown]
      [] r.kind = "error" -> [c EXCEPT !.st = "returned", !.result = Unknown]
      [] r.kind = "429" ->
            LET slept == [c EXCEPT
                            !.delays = Append(c.delays, API_RETRY_DELAY * Pow2(c.attempt)),
                            !.attempt = c.attempt + 1]
            IN  IF c.attempt + 1 < max_retries THEN slept
                ELSE [slept EXCEPT !.st = "returned", !.result = Unknown]

\* one iteration of call_gemini_with_retry's loop on reply r (lines 49-59)
call_gemini_with_retry(c, r, max_retries) ==
    CASE r.kind = "text" -> [c EXCEPT !.st = "returned", !.result = strip(r.text)]
      [] r.kind = "none" -> [c EXCEPT !.st = "returned", !.result = Unknown]
      [] r.kind = "error" -> [c EXCEPT !.st = "returned", !.result = Unknown]
      [] r.kind = "429" ->
            LET slept == [c EXCEPT
                            !.delays = Append(c.delays, API_RETRY_DELAY * Pow2(c.attempt)),
                            !.attempt = c.attempt + 1]
            IN  IF c.attempt + 1 < max_retries THEN slept
                ELSE [slept EXCEPT !.st = "returned", !.result = Unknown]

----------------------------------------------------------------------------
(* The enrichment pass *)

\* annotate_papers up to the loop (lines 72-77)
AnnotateStart ==
    /\ apc \in {"idle", "done"}
    /\ passes < MaxPasses
    /\ passes' = passes + 1
    /\ passStart' = file.data
    /\ replies' = <<>>
    /\ cl' = NoCall
    /\ IF LoadRaises(file)
       THEN /\ apc' = "crashed"
            /\ metadata' = <<>>
            /\ todo' = <<>>
       ELSE /\ metadata' = load_metadata(file)
            /\ todo' = Unannotated(load_metadata(file))
            /\ apc' = IF Unannotated(load_metadata(file)) = <<>> THEN "done" ELSE "loop"
    /\ UNCHANGED crawlVars

\* one entry of the loop up to the classifier call (lines 78-87)
AnnotateEntry ==
    /\ apc = "loop"
    /\ todo # <<>>
    /\ LET i == Head(todo)
           pdf_path == metadata[i].file_path
       IN  \E pages \in Extractions :
              IF ~is_valid_pdf(pdf_path, disk) \/ extract_text_from_pdf(pdf_path, disk, pages) = <<>>
              THEN /\ metadata' = [metadata EXCEPT ![i] = SetAnnotation(@, Unknown)]
                   /\ todo' = Tail(todo)
                   /\ UNCHANGED <<apc, cl, replies>>
              ELSE /\ apc' = "classify"
                   /\ cl' = [NoCall EXCEPT !.st = "calling", !.idx = i, !.pages = pages]
                   /\ replies' = Put(replies, i, <<>>)
                   /\ UNCHANGED <<metadata, todo>>
    /\ UNCHANGED <<crawlVars, passes, passStart>>

\* one model.generate_content call of call_gemini_with_retry (lines 49-59)
GenerateContent ==
    /\ apc = "classify"
    /\ cl.st = "calling"
    /\ \E r \in Replies :
          /\ cl' = call_gemini_with_retry(cl, r, API_RETRY_LIMIT)
          /\ replies' = [replies EXCEPT ![cl.idx] = Append(@, r)]
    /\ UNCHANGED <<crawlVars, passes, apc, metadata, todo, passStart>>

\* the assignment followed by a save_metadata(metadata) of its own
AssignAnnotation_SavePerItem ==
    /\ apc = "classify"
    /\ cl.st = "returned"
    /\ metadata' = [metadata EXCEPT ![cl.idx] = SetAnnotation(@, cl.result)]
    /\ file' = Write(Truncate(file), metadata')
    /\ todo' = Tail(todo)
    /\ apc' = "loop"
    /\ UNCHANGED <<root, catalog, disk, width, run, mainPc, latest_year_urls, yearPc, pc, loc, outcome,
                   before, saved, fetched, faults>>
    /\ UNCHANGED <<passes, cl, passStart, replies>>

\* entry["annotation"] = annotation; time.sleep(2) (lines 87-89)
AssignAnnotation ==
    /\ apc = "classify"
    /\ cl.st = "returned"
    /\ metadata' = [metadata EXCEPT ![cl.idx] = SetAnnotation(@, cl.result)]
    /\ todo' = Tail(todo)
    /\ apc' = "loop"
    /\ UNCHANGED <<crawlVars, passes, cl, passStart, replies>>

\* annotator's save_metadata: open(metadata_path, "w") (lines 27-28)
AnnotateSaveOpen ==
    /\ apc = "loop"
    /\ todo = <<>>
    /\ file' = Truncate(file)
    /\ apc' = "dump"
    /\ UNCHANGED <<root, catalog, disk, width, run, mainPc, latest_year_urls, yearPc, pc, loc, outcome,
                   before, saved, fetched, faults>>
    /\ UNCHANGED <<passes, metadata, todo, cl, passStart, replies>>

\* the dump of the list of the entries the pass labelled, not of the whole store
AnnotateSaveDump_Unannotated ==
    /\ apc = "dump"
    /\ LET U == Unannotated(passStart)
       IN  file' = Write(file, [k \in 1..Len(U) |-> metadata[U[k]]])
    /\ apc' = "done"
    /\ UNCHANGED <<root, catalog, disk, width, run, mainPc, latest_year_urls, yearPc, pc, loc, outcome,
                   before, saved, fetched, faults>>
    /\ UNCHANGED <<passes, metadata, todo, cl, passStart, replies>>

\* annotator's save_metadata: json.dump and close (line 29); annotate_papers returns
AnnotateSaveDump ==
    /\ apc = "dump"
    /\ file' = Write(file, metadata)
    /\ apc' = "done"
    /\ UNCHANGED <<root, catalog, disk, width, run, mainPc, latest_year_urls, yearPc, pc, loc, outcome,
                   before, saved, fetched, faults>>
    /\ UNCHANGED <<passes, metadata, todo, cl, passStart, replies>>

NextEnrich ==
    \/ AnnotateStart
    \/ AnnotateEntry
    \/ GenerateContent
    \/ AssignAnnotation
    \/ AnnotateSaveOpen
    \/ AnnotateSaveDump

----------------------------------------------------------------------------
(* Specifications *)

InitEnrichIdle ==
    /\ passes = 0
    /\ apc = "idle"
    /\ metadata = <<>>
    /\ todo = <<>>
    /\ cl = NoCall
    /\ passStart = <<>>
    /\ replies = <<>>

Init == InitCrawl /\ InitEnrichIdle /\ width = THREAD_POOL_SIZE

Spec == Init /\ [][NextCrawl]_vars

\* the steps of a started crawl: those of its threads, which the operating
\* system schedules and whose network calls return
CrawlStep ==
    \/ MainJoin
    \/ \E y \in YearUrls : ProcessYearFetch(y) \/ ProcessYearJoin(y)
    \/ \E t \in ItemUrls :
          \/ ProcessPaperParse(t)
          \/ DownloadBegin(t)
          \/ DownloadEnd(t)
          \/ SaveLoad(t)
          \/ SaveOpen(t)
          \/ SaveDump(t)

\* the crawl whose threads keep running: a thread that can take a step takes it
SpecLive == Init /\ [][NextCrawl]_vars /\ WF_vars(CrawlStep)

\* root pages: any set of these anchors: the index pages of six years, one of
\* them under a versioned name, a page without a year, a link outside /paper
IndexOfYear(tok) == <<"/", "paper_files", "/", "paper", "/", tok>>
Index2019v2 == <<"/", "paper_files", "/", "paper", "/", "2019", "-v", "2">>
AboutLink == <<"/", "paper_files", "/", "about">>
AdminLink == <<"/", "admin", "/", "login">>

RootPool ==
    {IndexOfYear(tok) : tok \in {"2020", "2021", "2022", "2023", "2024"}}
        \cup {Index2019v2, AboutLink, AdminLink}

\* index discovery alone: main up to the submission of the index tasks, on
\* every root page
InitDiscover ==
    /\ root \in SUBSET RootPool
    /\ catalog = [t \in ItemUrls |-> NormalB]
    /\ file = NoFile
    /\ disk = <<>>
    /\ width = THREAD_POOL_SIZE
    /\ run = 0
    /\ mainPc = "idle"
    /\ latest_year_urls = <<>>
    /\ yearPc = [y \in YearUrls |-> "idle"]
    /\ pc = [t \in ItemUrls |-> "idle"]
    /\ loc = [t \in ItemUrls |-> NoLocals]
    /\ outcome = [t \in ItemUrls |-> "none"]
    /\ before = <<>>
    /\ saved = {}
    /\ fetched = {}
    /\ faults = 0
    /\ InitEnrichIdle

SpecDiscover == InitDiscover /\ [][MainStart]_vars

\* the same crawl with executors of one worker thread
InitSeq == InitCrawl /\ InitEnrichIdle /\ width = 1

SpecSeq == InitSeq /\ [][NextCrawl]_vars

\* the entry a crawl stores for the i-th item page when its page is complete
ItemSeq == <<BASE_URL \o Item1, BASE_URL \o Item2, BASE_URL \o Item3>>

CrawlEntry(i) ==
    LET t == ItemSeq[((i - 1) % Len(ItemSeq)) + 1]
        page == IF i % 2 = 1 THEN NormalA ELSE NormalB
        pdf_url == BASE_URL \o PdfLink(page)
    IN  Metadata(t, [title |-> Title(page), authors |-> strip(page.authors),
                     year |-> Year(t), file_path |-> FilePath(t, pdf_url)], 1)

\* stores left by crawls and earlier passes: up to MaxItems entries, labelled or not
InitEntries(i) ==
    {CrawlEntry(i), SetAnnotation(CrawlEntry(i), Unknown),
     SetAnnotation(CrawlEntry(i), <<"Optimization">>)}

Stores ==
    UNION {{s \in [1..n -> UNION {InitEntries(i) : i \in 1..n}] :
               \A i \in 1..n : s[i] \in InitEntries(i)} : n \in 0..MaxItems}

\* the enrichment phase: the crawl is over, the store and the artifacts are what
\* crawls left
InitEnrich ==
    /\ catalog \in {c \in Catalogs : c[BASE_URL \o Item1] = NormalA /\ c[BASE_URL \o Item2] = NormalB}
    /\ \E s \in Stores :
          /\ file \in {[st |-> "json", data |-> s]} \cup
                      (IF s = <<>> THEN {NoFile, Truncate(NoFile)} ELSE {})
          /\ \E present \in SUBSET {s[i].file_path : i \in 1..Len(s)} :
                disk \in [present -> {"pdf", "empty"}]
    /\ root = Range(RootLinks)
    /\ width = THREAD_POOL_SIZE
    /\ run = 0
    /\ mainPc = "idle"
    /\ latest_year_urls = <<>>
    /\ yearPc = [y \in YearUrls |-> "idle"]
    /\ pc = [t \in ItemUrls |-> "idle"]
    /\ loc = [t \in ItemUrls |-> NoLocals]
    /\ outcome = [t \in ItemUrls |-> "none"]
    /\ before = <<>>
    /\ saved = {}
    /\ fetched = {}
    /\ faults = 0
    /\ InitEnrichIdle

SpecEnrich == InitEnrich /\ [][NextEnrich]_vars

----------------------------------------------------------------------------
(* Properties of the crawl *)

\* the store can be read and holds the entry e
Stored(e) == file.st = "json" /\ e \in Range(file.data)

\* the artifact URL the stored entry e was harvested from
ArtifactUrl(e) == BASE_URL \o PdfLink(catalog[e.url])

HasArtifact(t) == PdfLink(catalog[t]) # NoLink

\* C1: once the crawl is over, so that every save_metadata call has returned, the
\* store holds every entry it held before the crawl and every entry passed to a
\* save_metadata call, whatever the interleaving of the item tasks.
C1_NoAppendLost ==
    mainPc = "done" =>
        /\ \A m \in saved : Stored(m)
        /\ \A i \in 1..Len(before) : Stored(before[i])

\* every item page that links an artifact was recorded by the first crawl, and
\* no request has failed
FirstRunComplete ==
    /\ faults = 0
    /\ \A t \in ItemUrls :
          HasArtifact(t) => \E i \in 1..Len(before) : before[i].url = t

\* C2: a second crawl, in sequence, of an unchanged catalog whose artifacts the
\* first crawl all downloaded calls download_pdf for no item page and leaves the
\* store with the records it had after the first crawl.
C2_SecondCrawlIdle ==
    (run = 2 /\ FirstRunComplete) =>
        /\ \A f \in fetched : f[1] # 2
        /\ mainPc = "done" => file = [st |-> "json", data |-> before]

\* C3: with item tasks run one after another, no two entries of the store refer
\* to the same artifact URL, in every reachable state (here: even in the runs
\* where no request fails).
C3_ArtifactUrlUnique ==
    (file.st = "json" /\ faults = 0) =>
        \A i, j \in 1..Len(file.data) :
            i # j => ArtifactUrl(file.data[i]) # ArtifactUrl(file.data[j])

\* the entry a save_metadata call in progress appends
Appending(t) == loc[t].data[Len(loc[t].data)]

\* C7: when download_pdf fails for a new item, the entry that save_metadata
\* records for the item has an empty file_path.
C7_FailedDownloadEmptyPath ==
    \A t \in ItemUrls :
        (pc[t] \in {"open", "dump"} /\ loc[t].dl = "failed") =>
            Appending(t).file_path = <<>>

\* the entries of the store harvested from the item page t
EntriesOf(t) == {i \in 1..Len(file.data) : file.data[i].url = t}

\* C8: an item page with an artifact link (of no other page) and no "Authors"
\* section yields exactly one entry, with authors unset, title and year set from
\* the page, file_path under the year's directory and no annotation.
C8_NoAuthorsRecorded ==
    \A t \in ItemUrls :
        (/\ run = 1 /\ mainPc = "done" /\ faults = 0
         /\ HasArtifact(t) /\ ~HasAuthorSection(catalog[t])
         /\ \A u \in ItemUrls \ {t} : PdfLink(catalog[u]) # PdfLink(catalog[t])) =>
            /\ file.st = "json"
            /\ Cardinality(EntriesOf(t)) = 1
            /\ \A i \in EntriesOf(t) :
                  /\ "authors" \notin DOMAIN file.data[i]
                  /\ "annotation" \notin DOMAIN file.data[i]
                  /\ file.data[i].title = Title(catalog[t])
                  /\ file.data[i].year = Year(t)
                  /\ SubSeq(file.data[i].file_path, 1, 4) =
                        join(DOWNLOAD_DIR, <<str(Year(t))>>) \o <<"/">>

\* C9: when an item task fails, the crawl still ends with every submitted item
\* task finished and with the entry of every task that saved one in the store.
C9_FailureIsolated ==
    (mainPc = "done" /\ \E u \in ItemUrls : outcome[u] = "error") =>
        /\ \A t \in ItemUrls : pc[t] \in {"idle", "done"}
        /\ \A m \in saved : Stored(m)

----------------------------------------------------------------------------
(* Properties of the enrichment pass *)

\* what generate_content did in the classify call that is running or ran last
Heard == replies[cl.idx]

Kinds(rs) == [i \in 1..Len(rs) |-> rs[i].kind]

RateLimited(k) == [i \in 1..k |-> "429"]

Labelled(e) == "annotation" \in DOMAIN e

\* C4: when generate_content signals a rate limit k < 5 times in a row and then
\* answers, call_gemini_with_retry returns that answer after these k+1 calls and
\* k sleeps, the i-th sleep (from 0) lasting 2 * 2^i seconds.
C4_RetryBackoff ==
    cl.st # "idle" =>
        \A k \in 0..4 : \A a \in Answers :
            Heard = [i \in 1..(k + 1) |->
                        IF i <= k THEN [kind |-> "429", text |-> <<>>]
                        ELSE [kind |-> "text", text |-> a]] =>
                /\ cl.st = "returned"
                /\ cl.result = strip(a)
                /\ cl.delays = [i \in 1..k |-> 2 * 2^(i - 1)]

C4_Witness ==
    /\ cl.st = "returned"
    /\ Kinds(Heard) = RateLimited(4) \o <<"text">>
    /\ cl.delays = <<2, 4, 8, 16>>

\* C5: call_gemini_with_retry always returns a string: "Unknown" at the first
\* error that is not a rate limit, with no call after it, and "Unknown" after 5
\* rate limits in a row, with exactly 5 calls; no classifier error ends the pass.
C5_NeverPropagates ==
    /\ apc = "crashed" => cl = NoCall
    /\ cl.st # "idle" =>
        /\ Len(Heard) <= 5
        /\ \A i \in 1..Len(Heard) :
              Heard[i].kind = "error" =>
                  i = Len(Heard) /\ cl.st = "returned" /\ cl.result = Unknown
        /\ \A k \in 0..5 :
              Kinds(Heard) = RateLimited(k) =>
                  IF k < 5 THEN cl.st = "calling"
                  ELSE cl.st = "returned" /\ cl.result = Unknown
        /\ cl.st = "returned" => cl.result \in Seq(STRING)

C5_Witness ==
    /\ cl.st = "returned"
    /\ Kinds(Heard) = RateLimited(5)
    /\ cl.result = Unknown

\* C6: an entry that has an annotation in the store when a pass starts, "Unknown"
\* included, has the same annotation when the pass is over, and the pass calls
\* the classifier only for entries that had none.
C6_LabelKept ==
    /\ \A i \in DOMAIN replies : i \in 1..Len(passStart) /\ ~Labelled(passStart[i])
    /\ apc = "done" =>
          \A i \in 1..Len(passStart) :
              Labelled(passStart[i]) =>
                  /\ file.st = "json"
                  /\ Len(file.data) >= i
                  /\ file.data[i].url = passStart[i].url
                  /\ Labelled(file.data[i])
                  /\ file.data[i].annotation = passStart[i].annotation

C6_Witness ==
    /\ apc = "done"
    /\ file.st = "json"
    /\ \E i, j \in 1..Len(passStart) :
          /\ Labelled(passStart[i])
          /\ passStart[i].annotation = Unknown
          /\ file.data[i].annotation = Unknown
          /\ j \in DOMAIN replies
          /\ replies[j] # <<>>
          /\ file.data[j].annotation # Unknown

\* the entries the pass that is over had to process
Processed == {i \in 1..Len(passStart) : ~Labelled(passStart[i])}

\* the classifier's last word on entry i: the text it answered, if it did
Answered(i) ==
    /\ i \in DOMAIN replies
    /\ replies[i] # <<>>
    /\ replies[i][Len(replies[i])].kind = "text"

\* C10 as stated: after a pass, the annotation of every entry it processed is one
\* of LABELS or "Unknown", whatever the classifier answered.
C10_LabelInSet ==
    (apc = "done" /\ file.st = "json") =>
        \A i \in Processed : file.data[i].annotation \in LABELS \cup {Unknown}

\* C10 amended: after a pass, the annotation of every entry it processed is the
\* classifier's answer with the white space around it removed, or "Unknown" when
\* the classifier gave none; so it is one of LABELS or "Unknown" whenever that
\* answer is one of LABELS.
C10_LabelVerbatim ==
    (apc = "done" /\ file.st = "json") =>
        \A i \in Processed :
            /\ Labelled(file.data[i])
            /\ file.data[i].annotation =
                  IF Answered(i) THEN strip(replies[i][Len(replies[i])].text) ELSE Unknown
            /\ (Answered(i) /\ strip(replies[i][Len(replies[i])].text) \in LABELS) =>
                  file.data[i].annotation \in LABELS

C10_Witness ==
    /\ apc = "done"
    /\ file.st = "json"
    /\ \E i \in Processed :
          /\ Answered(i)
          /\ replies[i][Len(replies[i])].text = <<" ", "Optimization", "\n">>
          /\ file.data[i].annotation = <<"Optimization">>

\* C11: after a pass over a store that is not empty every entry of the store has
\* an annotation ("Unknown" after a failure), so the pass after it calls the
\* classifier for no entry and leaves the store as it found it.
C11_PassLabelsAll ==
    /\ (apc = "done" /\ file.st = "json") =>
          \A i \in 1..Len(file.data) : Labelled(file.data[i])
    /\ passes >= 2 =>
          /\ apc = "done"
          /\ replies = <<>>
          /\ file = [st |-> file.st, data |-> passStart]
          /\ file.st # "torn"

C11_Witness ==
    /\ passes = 2
    /\ apc = "done"
    /\ file.st = "json"
    /\ Len(file.data) = 2
    /\ file.data[1].annotation = <<"Robotics">>
    /\ file.data[2].annotation = Unknown

\* C12: an entry whose artifact is valid on disk but whose text extraction fails
\* or yields empty text is labelled "Unknown" without a classifier call: a call
\* is in progress only for a document whose extraction gave text.
C12_NoCallOnEmptyText ==
    apc = "classify" =>
        /\ cl.pages # <<"<raises>">>
        /\ strip(cl.pages) # <<>>

\* C15: the pass writes the store once, after its last entry: while the loop
\* runs the file holds what it held when the pass started (the labels assigned
\* so far are in memory only), and the rewrite begins with no entry left.
C15_StoreUntouchedDuringPass ==
    /\ apc \in {"loop", "classify"} =>
          /\ file.st = "json"
          /\ file.data = passStart
    /\ apc = "dump" =>
          /\ todo = <<>>
          /\ \A i \in 1..Len(metadata) : Labelled(metadata[i])

C15_Witness ==
    /\ apc = "loop"
    /\ todo # <<>>
    /\ \E i \in 1..Len(metadata) :
          /\ Labelled(metadata[i])
          /\ ~Labelled(file.data[i])
          /\ metadata[i].annotation \in LABELS

\* the entry without its annotation
WithoutAnnotation(e) == [k \in DOMAIN e \ {"annotation"} |-> e[k]]

\* C20: a pass changes nothing but labels: the store after it has the records
\* of the store before it, in the same order, none added or deleted, and every
\* field of each record other than the annotation is as it was.
C20_OnlyLabelsChange ==
    (apc = "done" /\ file.st = "json") =>
        /\ Len(file.data) = Len(passStart)
        /\ \A i \in 1..Len(passStart) :
              /\ WithoutAnnotation(file.data[i]) = WithoutAnnotation(passStart[i])
              /\ Labelled(passStart[i]) => file.data[i] = passStart[i]

C20_Witness ==
    /\ apc = "done"
    /\ file.st = "json"
    /\ Len(passStart) = 2
    /\ Labelled(passStart[1])
    /\ ~Labelled(passStart[2])
    /\ Labelled(file.data[2])
    /\ file.data[2].annotation # Unknown

\* C13: a read of the store that overlaps another worker's write sees a
\* complete collection and so never makes an item task fail: a task fails only
\* on a failed request, on a page without an Authors section, or on a page
\* whose Authors paragraph has no <i>.
C13_ReadNeverFailsTask ==
    [][\A t \in ItemUrls :
          (outcome[t] # "error" /\ outcome'[t] = "error") =>
              \/ faults' > faults
              \/ pc[t] = "queued" /\ ~HasAuthorSection(catalog[t])
              \/ pc[t] = "meta" /\ ~loc[t].bound]_vars

\* C14: the downloads in progress at any moment have pairwise distinct
\* destination paths.
C14_DestinationsDistinct ==
    \A t, u \in ItemUrls :
        (t # u /\ pc[t] \in {"download", "writing"} /\ pc[u] \in {"download", "writing"}) =>
            loc[t].file_path # loc[u].file_path

\* the page has no anchor whose href ends in -Paper-Conference.pdf or -Paper.pdf
NoArtifactLink(page) == \A i \in 1..Len(page.links) : ~IsPdfHref(page.links[i])

\* C17: the task of an item page without an artifact link downloads nothing and
\* writes nothing: it never reaches download_pdf or save_metadata, and the
\* store holds no record of its page.
C17_NoLinkNoEffect ==
    \A t \in ItemUrls :
        NoArtifactLink(catalog[t]) =>
            /\ pc[t] \in {"idle", "queued", "done"}
            /\ outcome[t] \in {"none", "nolink", "error"}
            /\ \A i \in 1..Len(file.data) : file.data[i].url # t
            /\ \A e \in saved : e.url # t

C17_Witness ==
    \E t, u \in ItemUrls :
        /\ NoArtifactLink(catalog[t])
        /\ outcome[t] = "nolink"
        /\ outcome[u] = "saved"
        /\ mainPc = "done"
        /\ file.st = "json"
        /\ Len(file.data) = 2

\* C19: a task that called download_pdf, and whose download wrote the artifact
\* file, ends with its record appended to the store.
C19_DownloadThenAppend ==
    [][\A t \in ItemUrls :
          (pc[t] \in {"meta", "open", "dump"} /\ loc[t].dl = "saved" /\ pc'[t] = "done") =>
              outcome'[t] = "saved"]_vars

\* C16: the crawl waits at both levels and terminates: an index page's task is
\* done only when every item task it submitted is done; the crawl is done only
\* when every selected index page's task is done, and then no item task runs
\* and the store no longer changes; a started crawl is eventually done.
C16_WaitsAndTerminates ==
    /\ [](\A y \in YearUrls :
             yearPc[y] = "done" => \A t \in TasksOf(y) : pc[t] \in {"idle", "done"})
    /\ [](mainPc = "done" =>
             /\ \A y \in YearUrls : yearPc[y] \in {"idle", "done"}
             /\ \A t \in ItemUrls : pc[t] \in {"idle", "done"})
    /\ [][(mainPc = "done" /\ mainPc' = "done") => (file' = file /\ disk' = disk)]_vars
    /\ (mainPc = "running") ~> (mainPc = "done")

C16_Witness ==
    /\ mainPc = "done"
    /\ run = 1
    /\ \A y \in YearUrls : yearPc[y] = "done"
    /\ \A t \in ItemUrls : outcome[t] = "saved"

\* the year embedded in a URL: its four-digit year, 0 when it has none
YearKey(url) ==
    LET hits == {i \in 1..Len(url) : url[i] \in YearTokens}
    IN  IF hits = {} THEN 0 ELSE int(url[Min(hits)])

\* C18: index discovery selects at most 5 of the discovered index pages, the
\* most recent ones: the year of every selected URL is at least the year of
\* every discovered URL that was not selected (a URL without a year counts as 0).
C18_LatestSelected ==
    mainPc = "running" =>
        /\ Len(latest_year_urls) <= 5
        /\ Range(latest_year_urls) \subseteq DiscoveredYearUrls
        /\ \A s \in Range(latest_year_urls) :
              \A d \in DiscoveredYearUrls \ Range(latest_year_urls) :
                  YearKey(s) >= YearKey(d)

====
